---- MODULE Spec2Model ----
(***************************************************************************)
(* vtkGmshReader (plugin/vtkGmshReader/vtkGmshReader.cxx): the reader of   *)
(* Gmsh MSH 4.x ASCII files.  The model is the reader as a state machine:  *)
(* SetFileName, RequestInformation (the $MeshFormat check) and RequestData *)
(* (the $Nodes / $Elements decode), the latter split at its loop heads.    *)
(*                                                                         *)
(* A file is a sequence of whitespace-delimited tokens.  A numeric token   *)
(* is a natural number; the section markers are the negative codes Tok(w). *)
(* A version number is held in tenths (4.1 is 41).  Coordinates are        *)
(* written as integers, so a token that is a valid double is a valid       *)
(* integer as well.                                                        *)
(***************************************************************************)
EXTENDS Integers, Sequences, FiniteSets, TLC

\* ------------------------------------------------------------------ bounds
\* node tags of the generated files are 1..MaxTag
MaxTag == 3
\* nodes in a generated $Nodes section, over all its entity blocks
MaxNodes == 2
\* entity blocks in a generated $Nodes section
MaxNodeBlocks == 2
\* elements in a generated $Elements section, over all its entity blocks
MaxElems == 2
\* entity blocks in a generated $Elements section
MaxElemBlocks == 2
\* an indeterminate (never written) integer is any of 0..IndetMax
IndetMax == 1

\* ------------------------------------------------------------------ tokens
Words == <<"$MeshFormat", "$EndMeshFormat", "$Nodes", "$EndNodes", "$Elements", "$EndElements", "junk">>

Tok(w) == 0 - (CHOOSE i \in 1..Len(Words) : Words[i] = w)

IsNum(t) == t >= 0

\* the value of a std::string that was never assigned: ""
EmptyLine == 0 - (Len(Words) + 1)

\* a variable an extraction left unwritten
Unset == 0 - (Len(Words) + 2)

Indet == 0..IndetMax

\* the values a variable may hold after an extraction: the value read, or,
\* for a variable declared without initializer and left unwritten, anything
Choices(v) == IF v = Unset THEN Indet ELSE {v}

\* a variable that held old before the extraction
Keep(old, v) == IF v = Unset THEN old ELSE v

Max(a, b) == IF a >= b THEN a ELSE b

Min(a, b) == IF a <= b THEN a ELSE b

\* std::numeric_limits<std::size_t>::max(), as the largest integer at hand
SizeMax == 2147483647

\* the version 4.0 of the comparison FormatVersionNumber < 4.0, in tenths
FourPointZero == 40

\* --------------------------------------------------- the stream extractions
\* MshFile >> v1 >> ... >> vk on the tokens f from position p, bad being the
\* stream's failbit.  Once the stream has failed nothing is written; at the
\* end of the file the extraction fails and writes nothing; a token that is
\* no number fails the extraction, which writes 0 (num_get, C++11).
RECURSIVE ReadNums(_, _, _, _)
ReadNums(f, p, bad, k) ==
  IF k = 0 THEN [vals |-> <<>>, pos |-> p, fail |-> bad]
  ELSE IF bad \/ p > Len(f)
    THEN LET r == ReadNums(f, p, TRUE, k - 1)
         IN  [r EXCEPT !.vals = <<Unset>> \o @]
  ELSE IF ~IsNum(f[p])
    THEN LET r == ReadNums(f, p, TRUE, k - 1)
         IN  [r EXCEPT !.vals = <<0>> \o @]
  ELSE LET r == ReadNums(f, p + 1, FALSE, k - 1)
       IN  [r EXCEPT !.vals = <<f[p]>> \o @]

\* MshFile >> line (std::string): any token is a word; a failed extraction
\* leaves line as it was
ReadWord(f, p, bad, old) ==
  IF bad \/ p > Len(f)
    THEN [val |-> old, pos |-> p, fail |-> TRUE]
    ELSE [val |-> f[p], pos |-> p + 1, fail |-> FALSE]

\* for (std::string line; std::getline(MshFile, line);) if (line == m) break;
\* the markers stand on lines of their own, so the loop ends after the first
\* marker m at or after p, or fails the stream at the end of the file
SeekLine(f, p, bad, m) ==
  IF bad THEN [pos |-> p, fail |-> TRUE]
  ELSE IF \E q \in p..Len(f) : f[q] = m
    THEN [pos |-> (CHOOSE q \in p..Len(f) : f[q] = m /\ \A r \in p..(q - 1) : f[r] # m) + 1, fail |-> FALSE]
    ELSE [pos |-> Len(f) + 1, fail |-> TRUE]

\* ------------------------------------------------- the element type tables
\* GetNumberOfVerticesForElementType: the cases 1..31
VerticesTable == <<2, 3, 4, 4, 8, 6, 5, 3, 6, 9, 10, 27, 18, 14, 1, 8, 20, 15, 13, 9, 10, 12, 15, 15, 21, 4, 5, 6, 20, 35, 56>>

KnownElementType(t) == t \in 1..31 \/ t = 92 \/ t = 93

GetNumberOfVerticesForElementType(t) ==
  IF t \in 1..31 THEN VerticesTable[t]
  ELSE IF t = 92 THEN 64
  ELSE IF t = 93 THEN 125
  ELSE 0

\* GetVTKCellType: the cases 1..31
CellTypeTable == <<"VTK_LINE", "VTK_TRIANGLE", "VTK_QUAD", "VTK_TETRA", "VTK_HEXAHEDRON", "VTK_WEDGE", "VTK_PYRAMID", "VTK_QUADRATIC_EDGE", "VTK_QUADRATIC_TRIANGLE", "VTK_BIQUADRATIC_QUAD", "VTK_QUADRATIC_TETRA", "VTK_TRIQUADRATIC_HEXAHEDRON", "VTK_BIQUADRATIC_QUADRATIC_WEDGE", "VTK_PYRAMID", "VTK_VERTEX", "VTK_QUADRATIC_QUAD", "VTK_QUADRATIC_HEXAHEDRON", "VTK_QUADRATIC_WEDGE", "VTK_QUADRATIC_PYRAMID", "VTK_TRIANGLE", "VTK_TRIANGLE", "VTK_TRIANGLE", "VTK_TRIANGLE", "VTK_TRIANGLE", "VTK_TRIANGLE", "VTK_POLY_LINE", "VTK_POLY_LINE", "VTK_POLY_LINE", "VTK_TETRA", "VTK_TETRA", "VTK_TETRA">>

GetVTKCellType(t) ==
  IF t \in 1..31 THEN CellTypeTable[t]
  ELSE IF t = 92 \/ t = 93 THEN "VTK_HEXAHEDRON"
  ELSE "VTK_EMPTY_CELL"

\* ------------------------------------------------------------ the point array
\* a slot of the point array that InsertPoint allocated and never wrote
Hole == <<Unset, Unset, Unset>>

\* NodeTag-1 and VertexTag-1: the subtraction is done in std::size_t and the
\* result converted to vtkIdType (signed, of the same width), so that tag 0
\* gives -1; of an indeterminate tag, an indeterminate id
ToVtkId(tag) == IF tag = Unset THEN Unset ELSE tag - 1

\* vtkPoints::InsertPoint(id, x, y, z): the array grows to id + 1 points, the
\* new slots below id staying unwritten; a negative id is refused
InsertPoint(P, id, xyz) ==
  IF id < 0 THEN P
  ELSE [k \in 1..Max(Len(P), id + 1) |->
          IF k = id + 1 THEN xyz ELSE IF k <= Len(P) THEN P[k] ELSE Hole]

\* ------------------------------------------------------------ the MSH files
\* The files the reader is run on, written as Gmsh writes MSH 4.1: a file is
\* described by its header tokens, its node entity blocks [dim, param, tags]
\* and its element entity blocks [type, elems], each element [tag, verts].
RECURSIVE Flatten(_)
Flatten(ss) == IF ss = <<>> THEN <<>> ELSE Head(ss) \o Flatten(Tail(ss))

RECURSIVE SumSeq(_)
SumSeq(s) == IF s = <<>> THEN 0 ELSE Head(s) + SumSeq(Tail(s))

Range(s) == {s[k] : k \in 1..Len(s)}

\* coordinate values are 0..CoordMod-1
CoordMod == 4

\* the c-th value (x, y, z, then u, v, w) written for the node tagged t
Coord(t, c) == (t + c) % CoordMod

\* values written per node of a block: x y z, and one parametric
\* coordinate per dimension of the entity when the block is parametric
WrittenCoords(b) == 3 + (IF b.param # 0 THEN b.dim ELSE 0)

NodeBlockToks(b) ==
  <<b.dim, 1, b.param, Len(b.tags)>> \o b.tags
    \o Flatten([j \in 1..Len(b.tags) |-> [c \in 1..WrittenCoords(b) |-> Coord(b.tags[j], c)]])

ElemBlockToks(b) ==
  <<0, 1, b.type, Len(b.elems)>>
    \o Flatten([j \in 1..Len(b.elems) |-> <<b.elems[j].tag>> \o b.elems[j].verts])

AllNodeTags(in) == Flatten([k \in 1..Len(in.nblocks) |-> in.nblocks[k].tags])

AllElems(in) == Flatten([k \in 1..Len(in.eblocks) |-> in.eblocks[k].elems])

SetMin(S) == IF S = {} THEN 0 ELSE CHOOSE x \in S : \A y \in S : x <= y

SetMax(S) == IF S = {} THEN 0 ELSE CHOOSE x \in S : \A y \in S : x >= y

\* the minimum and maximum tag a section header declares: the true ones,
\* or, for a writer that got them wrong (in.ndecl, in.edecl = 1), not
DeclaredNodeTags(in) ==
  LET S == Range(AllNodeTags(in))
  IN  <<SetMin(S), SetMax(S) + in.ndecl>>

ElemTags(in) == {AllElems(in)[k].tag : k \in 1..Len(AllElems(in))}

DeclaredElemTags(in) == <<SetMin(ElemTags(in)), SetMax(ElemTags(in)) + in.edecl>>

WholeFile(in) ==
  in.hdr
    \o <<Tok("$Nodes"), Len(in.nblocks), Len(AllNodeTags(in))>> \o DeclaredNodeTags(in)
    \o Flatten([k \in 1..Len(in.nblocks) |-> NodeBlockToks(in.nblocks[k])])
    \o <<Tok("$EndNodes"), Tok("$Elements"), Len(in.eblocks), Len(AllElems(in))>> \o DeclaredElemTags(in)
    \o Flatten([k \in 1..Len(in.eblocks) |-> ElemBlockToks(in.eblocks[k])])
    \o <<Tok("$EndElements")>>

\* the file on disk: whole, or cut after in.cut tokens (in.cut > 0)
FileToks(in) == IF in.cut = 0 THEN WholeFile(in) ELSE SubSeq(WholeFile(in), 1, in.cut)

GoodHeader == <<Tok("$MeshFormat"), 41, 0, 8, Tok("$EndMeshFormat")>>

Headers ==
  {<<a, v, t, d, e>> : a \in {Tok("$MeshFormat"), Tok("junk")}, v \in {22, 30, 40, 41, Tok("junk")},
                       t \in {0, 1, Tok("junk")}, d \in {8, Tok("junk")},
                       e \in {Tok("$EndMeshFormat"), Tok("junk")}}

InjSeqs(S, n) == {s \in [1..n -> S] : \A a, b \in 1..n : a # b => s[a] # s[b]}

\* the $Nodes sections of at most nb blocks and n nodes with distinct
\* positive tags among avail
RECURSIVE NodeSecs(_, _, _)
NodeSecs(nb, n, avail) ==
  IF nb = 0 THEN {<<>>}
  ELSE {<<>>} \cup UNION {
         {<<[dim |-> sh[1], param |-> sh[2], tags |-> ts]>> \o rest :
            rest \in NodeSecs(nb - 1, n - Len(ts), avail \ Range(ts))} :
         sh \in (0..3) \X {0, 1}, ts \in UNION {InjSeqs(avail, m) : m \in 0..n}}

\* element types of the generated files: vertex (15), line (1), and 32,
\* which the reader does not know
ElemTypes == {15, 1, 32}

\* the node tags an element of the generated files lists
WrittenVerts(ty) == IF KnownElementType(ty) THEN GetNumberOfVerticesForElementType(ty) ELSE 1

\* node tags an element may list: 0 and MaxTag + 1 are no node's tag
VTags == 0..MaxTag

\* the $Elements sections of at most nb blocks and n elements, tagged
\* tag, tag + 1, ... in file order
RECURSIVE ElemSecs(_, _, _)
ElemSecs(nb, n, tag) ==
  IF nb = 0 THEN {<<>>}
  ELSE {<<>>} \cup UNION { UNION {
         {<<[type |-> ty, elems |-> [j \in 1..Len(vs) |-> [tag |-> tag + j - 1, verts |-> vs[j]]]]>> \o rest :
            rest \in ElemSecs(nb - 1, n - Len(vs), tag + Len(vs))} :
         vs \in UNION {[1..m -> [1..WrittenVerts(ty) -> VTags]] : m \in 0..n}} : ty \in ElemTypes}

Input(h, nd, nbs, ed, ebs, c) ==
  [hdr |-> h, ndecl |-> nd, nblocks |-> nbs, edecl |-> ed, eblocks |-> ebs, cut |-> c]

\* a small mesh: two nodes on one parametric surface, one line
PlainNodes == <<[dim |-> 2, param |-> 1, tags |-> <<1, 2>>]>>

PlainElems == <<[type |-> 1, elems |-> <<[tag |-> 1, verts |-> <<1, 2>>]>>]>>

\* files that differ in their header, whole or cut inside it
HeaderFamily ==
  {Input(h, 0, PlainNodes, 0, PlainElems, 0) : h \in Headers}
    \cup {Input(GoodHeader, 0, PlainNodes, 0, PlainElems, c) : c \in 1..Len(GoodHeader)}

\* the small mesh, cut after any of its tokens
CutFamily ==
  {Input(GoodHeader, 0, PlainNodes, 0, PlainElems, c) :
     c \in 1..(Len(WholeFile(Input(GoodHeader, 0, PlainNodes, 0, PlainElems, 0))) - 1)}

\* --------------------------------------------------------------- the state
VARIABLES
  input,      \* the description of the file on disk
  file,       \* its tokens
  FileName,   \* "null" or "set"
  infoRet,    \* what RequestInformation returned: 0 or 1; -1 before the call
  infoErr,    \* the vtkErrorMacro it raised, "" for none
  pc,         \* where RequestData stands
  pos,        \* MshFile of RequestData: the next token
  fail,       \* MshFile of RequestData: its failbit
  NumberOfEntityBlocks, MinNodeTag, MaxNodeTag, MinNodeId, MaxNodeId,
  i, j, tags, NumberOfCoords, NumberOfNodesInBlock,
  vertices,   \* the vtkPoints being filled
  outPoints,  \* output->GetPoints(): <<>> until SetPoints
  MinElementTag, MaxElementTag, MinElementId, MaxElementId,
  ElementType, NumberOfVerticesPerElement, NumberOfElementsInBlock,
  ids,        \* the vtkIdList
  cells,      \* the cells of output, each [type, ids]
  warnings,   \* vtkWarningMacro raised by RequestData
  errors,     \* vtkErrorMacro raised by RequestData
  dataRet     \* what RequestData returned; -1 before it returns

fileVars == <<input, file>>

infoVars == <<infoRet, infoErr>>

streamVars == <<pos, fail>>

nodeVars == <<MinNodeTag, MaxNodeTag, MinNodeId, MaxNodeId, tags, NumberOfCoords, NumberOfNodesInBlock, vertices>>

elemVars == <<MinElementTag, MaxElementTag, MinElementId, MaxElementId, ElementType, NumberOfVerticesPerElement, NumberOfElementsInBlock, ids, cells>>

vars == <<fileVars, FileName, infoVars, pc, streamVars, NumberOfEntityBlocks, i, j, nodeVars, outPoints, elemVars, warnings, errors, dataRet>>

\* the state after construction (vtkGmshReader::vtkGmshReader), for the
\* file described by in; the locals of RequestData do not exist yet
InitFor(in) ==
  /\ input = in
  /\ file = FileToks(in)
  /\ FileName = "null"
  /\ infoRet = -1 /\ infoErr = ""
  /\ pc = "idle"
  /\ pos = 1 /\ fail = FALSE
  /\ NumberOfEntityBlocks = 0 /\ MinNodeTag = 0 /\ MaxNodeTag = 0
  /\ MinNodeId = 0 /\ MaxNodeId = 0
  /\ i = 0 /\ j = 0 /\ tags = <<>> /\ NumberOfCoords = 0 /\ NumberOfNodesInBlock = 0
  /\ vertices = <<>> /\ outPoints = <<>>
  /\ MinElementTag = 0 /\ MaxElementTag = 0 /\ MinElementId = 0 /\ MaxElementId = 0
  /\ ElementType = 0 /\ NumberOfVerticesPerElement = 0 /\ NumberOfElementsInBlock = 0
  /\ ids = <<>> /\ cells = <<>>
  /\ warnings = {} /\ errors = {}
  /\ dataRet = -1

\* ------------------------------------------------------------ SetFileName
\* vtkSetStringMacro(FileName)
SetFileName ==
  /\ FileName = "null"
  /\ pc = "idle"
  /\ FileName' = "set"
  /\ UNCHANGED <<fileVars, infoVars, pc, streamVars, NumberOfEntityBlocks, i, j, nodeVars, outPoints, elemVars, warnings, errors, dataRet>>

\* ----------------------------------------------------- RequestInformation
\* the comparison written <= for <
VersionTooOldOrEqual(v) == v <= FourPointZero

\* FormatVersionNumber < 4.0
VersionTooOld(v) == v < FourPointZero

\* FileType != 0
NotAscii(t) == t # 0

\* the body of RequestInformation on the tokens f, v and t being what
\* FormatVersionNumber and FileType hold if the extraction leaves them
\* unwritten: the value returned and the error raised
HeaderCheck(f, v, t) ==
  LET w1 == ReadWord(f, 1, FALSE, EmptyLine)
      r  == ReadNums(f, w1.pos, w1.fail, 3)
      FormatVersionNumber == Keep(v, r.vals[1])
      FileType == Keep(t, r.vals[2])
      w2 == ReadWord(f, r.pos, r.fail, w1.val)
  IN  IF w1.val # Tok("$MeshFormat") THEN [ret |-> 0, err |-> "Expected $MeshFormat in first line."]
      ELSE IF VersionTooOld(FormatVersionNumber) THEN [ret |-> 0, err |-> "Reader can only read MSH file format version 4.0 and up."]
      ELSE IF NotAscii(FileType) THEN [ret |-> 0, err |-> "Reader can only read ASCII formatted files"]
      ELSE IF w2.val # Tok("$EndMeshFormat") THEN [ret |-> 0, err |-> "Expected $EndMeshFormat."]
      ELSE [ret |-> 1, err |-> ""]

\* RequestInformation, between two requests of the pipeline
RequestInformation ==
  /\ pc \in {"idle", "done"}
  /\ infoRet = -1
  /\ IF FileName = "null"
       THEN infoRet' = 0 /\ infoErr' = "FileName has to be specified."
       ELSE \E v \in Indet \cup {FourPointZero}, t \in Indet :
              LET h == HeaderCheck(file, v, t)
              IN  infoRet' = h.ret /\ infoErr' = h.err
  /\ UNCHANGED <<fileVars, FileName, pc, streamVars, NumberOfEntityBlocks, i, j, nodeVars, outPoints, elemVars, warnings, errors, dataRet>>

\* ------------------------------------------------------------ RequestData
\* the sequences a run of extractions into fresh variables may leave:
\* the values read, then anything for each variable left unwritten
Resolved(vals) ==
  LET q == Cardinality({k \in 1..Len(vals) : vals[k] # Unset})
  IN  {SubSeq(vals, 1, q) \o u : u \in [1..(Len(vals) - q) -> Indet]}

\* std::ifstream MshFile(nullptr): undefined; the build at hand stops
RequestDataNoFile ==
  /\ pc = "idle"
  /\ FileName = "null"
  /\ pc' = "crashed"
  /\ UNCHANGED <<fileVars, FileName, infoVars, streamVars, NumberOfEntityBlocks, i, j, nodeVars, outPoints, elemVars, warnings, errors, dataRet>>

\* lines 55-71: open the file, skip to $Nodes, read the section header;
\* MinNodeTag and MaxNodeTag left unwritten are kept as Unset
OpenNodes ==
  /\ pc = "idle"
  /\ FileName = "set"
  /\ LET s == SeekLine(file, 1, FALSE, Tok("$Nodes"))
         r == ReadNums(file, s.pos, s.fail, 4)
     IN  /\ pos' = r.pos /\ fail' = r.fail
         /\ NumberOfEntityBlocks' \in Choices(r.vals[1])
         /\ MinNodeTag' = r.vals[3]
         /\ MaxNodeTag' = r.vals[4]
  /\ MaxNodeId' = 0
  /\ MinNodeId' = SizeMax
  /\ vertices' = <<>>
  /\ i' = 0
  /\ pc' = "nodeBlocks"
  /\ UNCHANGED <<fileVars, FileName, infoVars, j, tags, NumberOfCoords, NumberOfNodesInBlock, outPoints, elemVars, warnings, errors, dataRet>>

\* lines 77-80; of an EntityDim or Parametric left unwritten, an
\* indeterminate count (the stream has failed: it is the count of
\* extractions that write nothing)
CoordsPerNode(EntityDim, Parametric) ==
  IF EntityDim = Unset \/ Parametric = Unset THEN Unset
  ELSE 3 + (IF Parametric # 0 THEN EntityDim ELSE 0)

\* lines 73-87: the head of a node entity block and its tags
NodeBlockHeader ==
  /\ pc = "nodeBlocks"
  /\ i < NumberOfEntityBlocks
  /\ LET r == ReadNums(file, pos, fail, 4)
         EntityDim == r.vals[1]
         Parametric == r.vals[3]
     IN  \E n \in Choices(r.vals[4]) :
           LET t == ReadNums(file, r.pos, r.fail, n)
           IN  /\ NumberOfCoords' = CoordsPerNode(EntityDim, Parametric)
               /\ NumberOfNodesInBlock' = n
               /\ tags' \in Resolved(t.vals)
               /\ pos' = t.pos /\ fail' = t.fail
               /\ j' = 0
               /\ IF n = 0 THEN pc' = "nodeBlocks" /\ i' = i + 1
                           ELSE pc' = "nodeCoords" /\ i' = i
  /\ UNCHANGED <<fileVars, FileName, infoVars, NumberOfEntityBlocks, MinNodeTag, MaxNodeTag, MinNodeId, MaxNodeId, vertices, outPoints, elemVars, warnings, errors, dataRet>>

\* lines 93-101: the values extracted for one node
CoordsRead(n) == IF n = 5 THEN 5 ELSE IF n = 4 THEN 4 ELSE 3

\* lines 89-107: one node of the block; x, y, z left unwritten are kept
\* as Unset, no control depending on them
NodeCoords ==
  /\ pc = "nodeCoords"
  /\ j < NumberOfNodesInBlock
  /\ LET NodeTag == tags[j + 1]
         r == ReadNums(file, pos, fail, CoordsRead(NumberOfCoords))
     IN  /\ pos' = r.pos /\ fail' = r.fail
         /\ MinNodeId' = Min(MinNodeId, NodeTag)
         /\ MaxNodeId' = Max(MaxNodeId, NodeTag)
         /\ vertices' = InsertPoint(vertices, ToVtkId(NodeTag), SubSeq(r.vals, 1, 3))
  /\ j' = j + 1
  /\ IF j + 1 < NumberOfNodesInBlock
       THEN pc' = "nodeCoords" /\ i' = i
       ELSE pc' = "nodeBlocks" /\ i' = i + 1
  /\ UNCHANGED <<fileVars, FileName, infoVars, NumberOfEntityBlocks, MinNodeTag, MaxNodeTag, tags, NumberOfCoords, NumberOfNodesInBlock, outPoints, elemVars, warnings, errors, dataRet>>

\* a != b: of an indeterminate value, either
Differs(a, b) == IF a = Unset \/ b = Unset THEN BOOLEAN ELSE {a # b}

\* line 111: what the condition may evaluate to
NodeTagsWrong == {p \/ q : p \in Differs(MinNodeTag, MinNodeId), q \in Differs(MaxNodeTag, MaxNodeId)}

\* lines 110-133: the consistency check, SetPoints, skip to $Elements, read
\* the section header; NumberOfEntityBlocks keeps its value if unwritten,
\* MinElementTag and MaxElementTag are read and never used
OpenElements ==
  /\ pc = "nodeBlocks"
  /\ i >= NumberOfEntityBlocks
  /\ \E wrong \in NodeTagsWrong :
       warnings' = IF wrong THEN warnings \cup {"Min/Max node tags reported in section header are wrong"} ELSE warnings
  /\ outPoints' = vertices
  /\ LET s == SeekLine(file, pos, fail, Tok("$Elements"))
         r == ReadNums(file, s.pos, s.fail, 4)
     IN  /\ pos' = r.pos /\ fail' = r.fail
         /\ NumberOfEntityBlocks' = Keep(NumberOfEntityBlocks, r.vals[1])
         /\ MinElementTag' = r.vals[3]
         /\ MaxElementTag' = r.vals[4]
  /\ MaxElementId' = 0
  /\ MinElementId' = SizeMax
  /\ ids' = <<>>
  /\ i' = 0
  /\ pc' = "elemBlocks"
  /\ UNCHANGED <<fileVars, FileName, infoVars, j, nodeVars, ElementType, NumberOfVerticesPerElement, NumberOfElementsInBlock, cells, errors, dataRet>>

\* lines 135-140: the head of an element entity block
ElemBlockHeader ==
  /\ pc = "elemBlocks"
  /\ i < NumberOfEntityBlocks
  /\ LET r == ReadNums(file, pos, fail, 4)
     IN  /\ pos' = r.pos /\ fail' = r.fail
         /\ \E ty \in Choices(r.vals[3]), n \in Choices(r.vals[4]) :
              /\ ElementType' = ty
              /\ NumberOfElementsInBlock' = n
              /\ NumberOfVerticesPerElement' = GetNumberOfVerticesForElementType(ty)
              /\ errors' = IF KnownElementType(ty) THEN errors ELSE errors \cup {"Unknown element type"}
              /\ IF n = 0 THEN pc' = "elemBlocks" /\ i' = i + 1
                          ELSE pc' = "elemCells" /\ i' = i
  /\ j' = 0
  /\ UNCHANGED <<fileVars, FileName, infoVars, NumberOfEntityBlocks, nodeVars, outPoints, MinElementTag, MaxElementTag, MinElementId, MaxElementId, ids, cells, warnings, dataRet>>

\* vtkIdList::SetNumberOfIds: the ids kept are unspecified beyond the old length
SetNumberOfIds(l, n) == [k \in 1..n |-> IF k <= Len(l) THEN l[k] ELSE Unset]

\* lines 148-152: ids->SetId(k, VertexTag-1) for the n vertex tags vt
SetIds(l, vt) == [k \in 1..Len(l) |-> IF k <= Len(vt) THEN ToVtkId(vt[k]) ELSE l[k]]

\* std::min on values of which one may be indeterminate
MinOf(a, b) == IF a = Unset \/ b = Unset THEN Unset ELSE Min(a, b)

\* line 154
NextMinElementId(m, ElementTag) == MinOf(m, ElementTag)

\* line 155
NextMaxElementId(m, ElementTag) == MinOf(m, ElementTag)

\* lines 142-158: one element of the block; ElementTag and VertexTag left
\* unwritten are kept as Unset, no control depending on them
ReadElement ==
  /\ pc = "elemCells"
  /\ j < NumberOfElementsInBlock
  /\ LET r == ReadNums(file, pos, fail, 1 + NumberOfVerticesPerElement)
     IN  /\ pos' = r.pos /\ fail' = r.fail
         /\ LET ElementTag == r.vals[1]
                 l == SetIds(SetNumberOfIds(ids, NumberOfVerticesPerElement), Tail(r.vals))
             IN  /\ ids' = l
                 /\ MinElementId' = NextMinElementId(MinElementId, ElementTag)
                 /\ MaxElementId' = NextMaxElementId(MaxElementId, ElementTag)
                 /\ cells' = Append(cells, [type |-> GetVTKCellType(ElementType), ids |-> l])
  /\ errors' = IF KnownElementType(ElementType) THEN errors ELSE errors \cup {"Cannot convert unknown element type"}
  /\ j' = j + 1
  /\ IF j + 1 < NumberOfElementsInBlock
       THEN pc' = "elemCells" /\ i' = i
       ELSE pc' = "elemBlocks" /\ i' = i + 1
  /\ UNCHANGED <<fileVars, FileName, infoVars, NumberOfEntityBlocks, nodeVars, outPoints, MinElementTag, MaxElementTag, ElementType, NumberOfVerticesPerElement, NumberOfElementsInBlock, warnings, dataRet>>

\* line 161
ReturnData ==
  /\ pc = "elemBlocks"
  /\ i >= NumberOfEntityBlocks
  /\ dataRet' = 1
  /\ pc' = "done"
  /\ UNCHANGED <<fileVars, FileName, infoVars, streamVars, NumberOfEntityBlocks, i, j, nodeVars, outPoints, elemVars, warnings, errors>>

RequestData ==
  \/ RequestDataNoFile
  \/ OpenNodes
  \/ NodeBlockHeader
  \/ NodeCoords
  \/ OpenElements
  \/ ElemBlockHeader
  \/ ReadElement
  \/ ReturnData

Next ==
  \/ SetFileName
  \/ RequestInformation
  \/ RequestData

\* the reader on the files of each family
InitHeader == \E in \in HeaderFamily : InitFor(in)

\* files that differ in their $Nodes section
InitNodes ==
  \E nd \in {0, 1}, nbs \in NodeSecs(MaxNodeBlocks, MaxNodes, 1..MaxTag) :
    InitFor(Input(GoodHeader, nd, nbs, 0, PlainElems, 0))

\* files that differ in their $Elements section, on dense or sparse node tags
InitElems ==
  \E ts \in {<<1, 2>>, <<1, 3>>}, ed \in {0, 1}, ebs \in ElemSecs(MaxElemBlocks, MaxElems, 1) :
    InitFor(Input(GoodHeader, 0, <<[dim |-> 0, param |-> 0, tags |-> ts]>>, ed, ebs, 0))

InitCut == \E in \in CutFamily : InitFor(in)

Init == InitHeader \/ InitCut

Spec == Init /\ [][Next]_vars

SpecHeader == InitHeader /\ [][Next]_vars

SpecNodes == InitNodes /\ [][Next]_vars

SpecElems == InitElems /\ [][Next]_vars

SpecCut == InitCut /\ [][Next]_vars

\* ================================================================ the claims
InElements == pc \in {"elemBlocks", "elemCells", "done"}

Whole == input.cut = 0

\* the slots of the point array of the output
Slots == 0..(Len(outPoints) - 1)

Dangling(e) == \E m \in 1..Len(e.verts) : (e.verts[m] - 1) \notin Slots

AllKnown(in) == \A b \in 1..Len(in.eblocks) : KnownElementType(in.eblocks[b].type)

\* C1: an element that lists a node tag t whose slot t-1 is no slot of the
\* point array makes the decode fail: the cells never come to hold that
\* element, and RequestData does not return success.
C1_DanglingReferenceFails ==
  \A k \in 1..Len(AllElems(input)) :
    (InElements /\ Whole /\ AllKnown(input) /\ Dangling(AllElems(input)[k]))
      => (Len(cells) < k /\ dataRet # 1)

\* C2: during and after the element section every id of every cell of the
\* output is a slot of the point array: 0 <= v < number of points.
C2_CellIdsInRange ==
  InElements => \A k \in 1..Len(cells) : \A m \in 1..Len(cells[k].ids) : cells[k].ids[m] \in Slots

\* C3: for a file whose node tags are positive and unique, once the node
\* section is consumed the number of points is the number of nodes of the
\* file (the sum of the sizes of its node entity blocks).
C3_PointCountIsNodeCount ==
  (InElements /\ Whole) => Len(outPoints) = Len(AllNodeTags(input))

\* the ids the elements of the file list, in file order: tag - 1 each
ExpectedIds(in) ==
  [k \in 1..Len(AllElems(in)) |-> [m \in 1..Len(AllElems(in)[k].verts) |-> AllElems(in)[k].verts[m] - 1]]

CellIds == [k \in 1..Len(cells) |-> cells[k].ids]

\* C4: for a file whose element blocks all have supported types, the cells
\* of the decoded mesh are the elements of the file, one per element in file
\* order, each holding the element's node tags minus 1 in file order.
C4_CellsAreElements ==
  (pc = "done" /\ Whole /\ AllKnown(input)) => CellIds = ExpectedIds(input)

\* the part of C4 that the element loop decides: when the stream has not
\* failed by the end of the decode, the cells are the elements of the file
ElementsDecodedUnlessStreamFailed ==
  (pc = "done" /\ Whole /\ AllKnown(input) /\ ~fail) => CellIds = ExpectedIds(input)

\* elements of the blocks that precede the first block of unknown type
RECURSIVE ElemsBeforeUnknown(_)
ElemsBeforeUnknown(bs) ==
  IF bs = <<>> \/ ~KnownElementType(Head(bs).type) THEN 0
  ELSE Len(Head(bs).elems) + ElemsBeforeUnknown(Tail(bs))

\* C5: a block of a type outside the table is fatal: no cell is emitted for
\* an element of that block or of a later one, and RequestData does not
\* return success.
C5_UnknownTypeAborts ==
  (InElements /\ Whole /\ ~AllKnown(input))
    => (Len(cells) <= ElemsBeforeUnknown(input.eblocks) /\ dataRet # 1)

\* where the k-th node entity block of the file starts
NodeBlockStart(in, k) ==
  Len(in.hdr) + 5 + SumSeq([b \in 1..(k - 1) |-> Len(NodeBlockToks(in.nblocks[b]))]) + 1

\* the tags of the first k node entity blocks of the file
TagsThrough(in, k) == Range(Flatten([b \in 1..k |-> in.nblocks[b].tags]))

\* C6: of a node block of dimension d the reader consumes 3 + d values per
\* node when the block is parametric and 3 otherwise, and stores x, y, z:
\* after i blocks the stream stands at the head of block i + 1, and the
\* slot of each node read holds the first three values written for it.
C6_NodeBlocksConsumed ==
  (pc = "nodeBlocks" /\ Whole /\ i <= Len(input.nblocks))
    => /\ pos = NodeBlockStart(input, i + 1)
       /\ \A t \in TagsThrough(input, i) :
            t <= Len(vertices) /\ vertices[t] = <<Coord(t, 1), Coord(t, 2), Coord(t, 3)>>

\* the header as the claim reads it: the first token is $MeshFormat, the
\* version is at least 4.0, the file type is 0, and the token after the
\* data size is $EndMeshFormat
HeaderWellFormed(f) ==
  /\ Len(f) >= 5
  /\ f[1] = Tok("$MeshFormat")
  /\ IsNum(f[2]) /\ f[2] >= 40
  /\ f[3] = 0
  /\ IsNum(f[4])
  /\ f[5] = Tok("$EndMeshFormat")

\* the failure of a header of five tokens whose version and file type are
\* numbers: that of its first defect
HeaderDefect(f) ==
  IF f[1] # Tok("$MeshFormat") THEN "MalformedHeader"
  ELSE IF f[2] < 40 THEN "UnsupportedVersion"
  ELSE IF f[3] # 0 THEN "UnsupportedEncoding"
  ELSE IF ~IsNum(f[4]) \/ f[5] # Tok("$EndMeshFormat") THEN "MalformedHeader"
  ELSE "none"

\* the failure an error message of RequestInformation reports
ErrorKind(err) ==
  CASE err = "Expected $MeshFormat in first line." -> "MalformedHeader"
    [] err = "Expected $EndMeshFormat." -> "MalformedHeader"
    [] err = "Reader can only read MSH file format version 4.0 and up." -> "UnsupportedVersion"
    [] err = "Reader can only read ASCII formatted files" -> "UnsupportedEncoding"
    [] err = "" -> "none"
    [] OTHER -> "other"

Validated == infoRet # -1 /\ infoErr # "FileName has to be specified."

\* C7: RequestInformation on a file succeeds exactly when the first token is
\* $MeshFormat, the version is >= 4.0, the file type is 0 and the token
\* after the data size is $EndMeshFormat; on a header of five tokens with
\* a numeric version and file type it fails as MalformedHeader for a missing
\* marker, as UnsupportedVersion for a version below 4.0, as
\* UnsupportedEncoding for a non-zero file type, the first defect deciding.
C7_HeaderValidation ==
  Validated =>
    /\ infoRet = 1 <=> HeaderWellFormed(file)
    /\ infoRet = 1 => infoErr = ""
    /\ infoRet = 0 => ErrorKind(infoErr) \in {"MalformedHeader", "UnsupportedVersion", "UnsupportedEncoding"}
    /\ (infoRet = 0 /\ Whole /\ IsNum(file[2]) /\ IsNum(file[3])) => ErrorKind(infoErr) = HeaderDefect(file)

\* a header declaring version 3.0 was rejected as UnsupportedVersion
C7_Witness ==
  /\ infoRet = 0
  /\ Whole /\ file[1] = Tok("$MeshFormat") /\ file[2] = 30
  /\ ErrorKind(infoErr) = "UnsupportedVersion"

\* C8: header validation gates the decode: once RequestInformation has
\* failed on the file, RequestData reads no token of it, writes no point
\* and inserts no cell.
C8_HeaderGate ==
  [][(infoRet = 0 /\ FileName = "set") => (pos' = pos /\ vertices' = vertices /\ cells' = cells)]_vars

\* the file ends inside its $Nodes or $Elements section
CutInSections == input.cut > Len(input.hdr) + 1

\* C9: when the stream fails during a numeric read of the node or element
\* section (the file ends there), RequestData does not return success.
C9_TruncatedStreamFails ==
  (pc = "done" /\ CutInSections /\ fail) => dataRet # 1

\* C10: after the element blocks are read the reader holds the least and the
\* greatest element tag of the file, and has warned about the element tag
\* range exactly when they differ from those the $Elements header declares.
C10_ElementTagRange ==
  (pc = "done" /\ Whole /\ AllKnown(input) /\ AllElems(input) # <<>>)
    => /\ MinElementId = SetMin(ElemTags(input))
       /\ MaxElementId = SetMax(ElemTags(input))
       /\ ("Min/Max element tags reported in section header are wrong" \in warnings)
            <=> (MinElementTag # MinElementId \/ MaxElementTag # MaxElementId)

====
